---- MODULE Spec2Model ----
(***************************************************************************)
(* Model of sparkbot-starterkit/bot.js: the Webhook dispatcher.            *)
(*                                                                         *)
(* One Webhook instance is constructed from a configuration, routes are    *)
(* registered on the express app, and HTTP requests are then served.  A    *)
(* POST to the REST webhook route may start one outbound https request     *)
(* whose 'end' or 'error' event completes the handling later.  Every       *)
(* handler runs to completion on the event loop, so each handler is one    *)
(* action.  What a handler did for a request is kept, in order, in the     *)
(* request's log: responses sent, the outbound request issued, callback    *)
(* invocations and uncaught exceptions.                                    *)
(***************************************************************************)
EXTENDS Integers, Sequences, FiniteSets, TLC

\* ------------------------------------------------------------------ bounds
MaxRequests == 2

Requests == 1..MaxRequests

\* ------------------------------------------------------------ JS values
\* A property that is not there (reads as undefined), and the empty string.
Absent == "<absent>"
Empty == ""

\* JavaScript truthiness of a property value: undefined and "" are falsy.
Truthy(v) == v \notin {Absent, Empty}

\* ------------------------------------------------------------- payloads
MessageFields == {"id", "personId", "personEmail", "roomId", "created", "text", "files"}

\* The documented message (bot.js:207-217), field by field.
FullMessage ==
    [isNull |-> FALSE, id |-> "m1", personId |-> "p1", personEmail |-> "matt@example.com",
     roomId |-> "r1", created |-> "2015-10-18", text |-> "hello", files |-> "[url]"]

\* JSON null: every property read on it would fail, it is simply falsy.
NullPayload ==
    [isNull |-> TRUE, id |-> Absent, personId |-> Absent, personEmail |-> Absent,
     roomId |-> Absent, created |-> Absent, text |-> Absent, files |-> Absent]

\* The payloads requests and the platform's answers are drawn from: the full
\* message, the message with one field missing, with neither text nor
\* files, with an empty text only, with an empty id, and JSON null.
Payloads ==
    {FullMessage, NullPayload}
    \cup {[FullMessage EXCEPT ![f] = Absent] : f \in MessageFields}
    \cup {[FullMessage EXCEPT !.text = Absent, !.files = Absent],
          [FullMessage EXCEPT !.text = Empty, !.files = Absent],
          [FullMessage EXCEPT !.id = Empty]}

\* The body of the platform's answer as received: text that is JSON for a
\* payload, or text that is not JSON at all (an empty body, an HTML page).
Bodies ==
    [syntax : {"json"}, value : Payloads]
    \cup {[syntax |-> "invalid", value |-> NullPayload]}

\* JSON.parse(Buffer.concat(chunks)): the value, or a SyntaxError thrown.
JSONparse(body) ==
    IF body.syntax = "json"
    THEN [threw |-> FALSE, value |-> body.value]
    ELSE [threw |-> TRUE, value |-> NullPayload]

\* The body of a POST to the REST webhook, as body-parser hands it over:
\* resource, event, and data (an object, with or without an id) or no data.
\* Drawn from the bodies with at most one of the three missing, and {}.
Envelopes ==
    {e \in [resource : {Absent, "messages", "rooms"},
            event : {Absent, "created", "deleted"},
            hasData : BOOLEAN,
            dataId : {Absent, "m1"}] :
        /\ e.hasData \/ e.dataId = Absent
        /\ \/ Cardinality({e.resource, e.event} \cap {Absent}) + (IF e.hasData THEN 0 ELSE 1) <= 1
           \/ e.resource = Absent /\ e.event = Absent /\ ~e.hasData}

NoEnvelope == [resource |-> Absent, event |-> Absent, hasData |-> FALSE, dataId |-> Absent]

\* ---------------------------------------------------------- configuration
Undefined ==
    [defined |-> FALSE, webhookURI |-> Absent, integrationURI |-> Absent,
     healthURI |-> Absent, token |-> Absent]

\* The configurations the constructor is called with: none at all, an
\* object with any of the two URIs set, or an object that sets only the
\* health URI.
ConfigInputs ==
    {Undefined}
    \cup [defined : {TRUE}, webhookURI : {Absent, "/webhook"},
          integrationURI : {Absent, "/bot"},
          healthURI : {Absent}, token : {"tok"}]
    \cup {[Undefined EXCEPT !.defined = TRUE, !.healthURI = "/health"]}

\* ------------------------------------------------------------- callbacks
NoHandler == "<none>"
Handlers == {"h1"}
CallbackResults == {"return", "throw"}

\* What the platform answers the outbound call with: 200 and any body, or
\* 404 and an error body (not JSON, JSON null, or JSON that happens to be
\* a message).
Answers ==
    [status : {200}, body : Bodies]
    \cup [status : {404},
          body : {[syntax |-> "invalid", value |-> NullPayload],
                  [syntax |-> "json", value |-> NullPayload],
                  [syntax |-> "json", value |-> FullMessage]}]

VARIABLES
    configIn,   \* the argument the constructor was called with
    config,     \* self.config
    routes,     \* the paths registered on the express app
    handler,    \* self.handler
    alive,      \* FALSE once an uncaught exception has ended the process
    req,        \* req[r]: the HTTP request r, once received
    pc,         \* pc[r]: "new", "fetching" (outbound call outstanding), "done"
    outcome,    \* outcome[r]: how the outbound call of r completed
    log         \* log[r]: what the handlers did for r, in order

vars == <<configIn, config, routes, handler, alive, req, pc, outcome, log>>

NoRequest == [route |-> "none", method |-> "none", envelope |-> NoEnvelope, message |-> NullPayload]
NoOutcome == [kind |-> "none", status |-> 0, body |-> [syntax |-> "invalid", value |-> NullPayload]]

\* ------------------------------------------------------------ log events
NoEvent ==
    [ev |-> "none", status |-> 0, text |-> "", path |-> "", authorization |-> "",
     handler |-> NoHandler, payload |-> NullPayload, result |-> "none"]

\* res.status(status).json({message: text})
RespondEvent(status, text) ==
    [NoEvent EXCEPT !.ev = "respond", !.status = status, !.text = text]
\* https.request(options, ...) ... req.end()
RequestEvent(path, authorization) ==
    [NoEvent EXCEPT !.ev = "request", !.path = path, !.authorization = authorization]
\* registered(message), and whether it returned or threw
CallbackEvent(h, message, result) ==
    [NoEvent EXCEPT !.ev = "callback", !.handler = h, !.payload = message, !.result = result]
\* an exception thrown by the dispatcher's own code
ExceptionEvent(what) ==
    [NoEvent EXCEPT !.ev = "exception", !.text = what]

IsRespond(e) == e.ev = "respond"
IsRequest(e) == e.ev = "request"
IsCallback(e) == e.ev = "callback"
IsException(e) == e.ev = "exception"

Responses(l) == SelectSeq(l, IsRespond)
Fetches(l) == SelectSeq(l, IsRequest)
Callbacks(l) == SelectSeq(l, IsCallback)
Exceptions(l) == SelectSeq(l, IsException)

\* The handler that produced l ended by an exception: one of its own, or
\* one the callback threw (execute does not catch).
Threw(l) ==
    /\ l # <<>>
    /\ \/ l[Len(l)].ev = "exception"
       \/ l[Len(l)].ev = "callback" /\ l[Len(l)].result = "throw"

\* String(v) as string concatenation renders a property value.
Str(v) == IF v = Absent THEN "undefined" ELSE v

\* ----------------------------------------------------------- construction
\* Construct with the default for a missing configuration left out.
ConstructNoDefault(c) ==
    [c EXCEPT !.defined = TRUE]

\* if (!config) config = { integrationURI: "/integration" }; self.config = config
Construct(c) ==
    IF ~c.defined
    THEN [Undefined EXCEPT !.defined = TRUE, !.integrationURI = "/integration"]
    ELSE c

\* The routes the constructor registers on the app: a path, or Absent.
RegisteredRoutes(c) ==
    [health |-> IF Truthy(c.healthURI) THEN c.healthURI ELSE "/ping",
     webhook |-> IF Truthy(c.webhookURI) THEN c.webhookURI ELSE Absent,
     integration |-> IF Truthy(c.integrationURI) THEN c.integrationURI ELSE Absent]

\* ------------------------------------------------------------- validation
\* validateMessage with the check of created left out.
validateMessageNoCreated(payload) ==
    IF \/ payload.isNull
       \/ ~Truthy(payload.id)
       \/ ~Truthy(payload.personId)
       \/ ~Truthy(payload.personEmail)
       \/ ~Truthy(payload.roomId)
    THEN NullPayload
    ELSE IF ~Truthy(payload.text) /\ ~Truthy(payload.files)
    THEN NullPayload
    ELSE payload

\* validateMessage(payload): the payload, or undefined (here the falsy
\* NullPayload) when it does not comply.
validateMessage(payload) ==
    IF \/ payload.isNull
       \/ ~Truthy(payload.id)
       \/ ~Truthy(payload.personId)
       \/ ~Truthy(payload.personEmail)
       \/ ~Truthy(payload.roomId)
       \/ ~Truthy(payload.created)
    THEN NullPayload
    ELSE IF ~Truthy(payload.text) /\ ~Truthy(payload.files)
    THEN NullPayload
    ELSE payload

\* !message
Falsy(message) == message.isNull

\* -------------------------------------------------------------- handlers
\* execute that runs the handler a second time when it returned.
executeTwice(l, message, h, result) ==
    IF h # NoHandler
    THEN IF result = "return"
         THEN l \o <<CallbackEvent(h, message, result), CallbackEvent(h, message, result)>>
         ELSE Append(l, CallbackEvent(h, message, result))
    ELSE l

\* execute(message): if (self.handler) self.handler(message), where
\* register wrapped the user's function; result is what that function does.
execute(l, message, h, result) ==
    IF h # NoHandler THEN Append(l, CallbackEvent(h, message, result)) ELSE l

\* triggerMessageCreatedEvent without the check of the message id.
triggerMessageCreatedEventNoIdCheck(l, dataId, token) ==
    Append(l, RequestEvent("/v1/messages/" \o Str(dataId), "Bearer " \o Str(token)))

\* triggerMessageCreatedEvent(originalResponse, triggerData), up to req.end().
triggerMessageCreatedEvent(l, dataId, token) ==
    IF ~Truthy(dataId)
    THEN Append(l, RespondEvent(500, "could not retreive the message contents, no message id there !"))
    ELSE Append(l, RequestEvent("/v1/messages/" \o dataId, "Bearer " \o Str(token)))

\* The 'end' handler answering 500 to a message that does not comply.
onEndInvalidIs500(l, messageId, status, body, h, result) ==
    LET parsed == JSONparse(body)
        message == validateMessage(parsed.value)
    IN  IF parsed.threw
        THEN Append(l, ExceptionEvent("SyntaxError"))
        ELSE IF status # 200
        THEN Append(l, RespondEvent(500, "bad response when retreiving the text of the message with id:" \o messageId))
        ELSE IF Falsy(message)
        THEN Append(l, RespondEvent(500, "no content to process for new message with id:" \o messageId))
        ELSE execute(Append(l, RespondEvent(200, "message is being processed by webhook")),
                     message, h, result)

\* response.on("end", ...) of the outbound call.
onEnd(l, messageId, status, body, h, result) ==
    LET parsed == JSONparse(body)
        message == validateMessage(parsed.value)
    IN  IF parsed.threw
        THEN Append(l, ExceptionEvent("SyntaxError"))
        ELSE IF status # 200
        THEN Append(l, RespondEvent(500, "bad response when retreiving the text of the message with id:" \o messageId))
        ELSE IF Falsy(message)
        THEN Append(l, RespondEvent(200, "no content to process for new message with id:" \o messageId))
        ELSE execute(Append(l, RespondEvent(200, "message is being processed by webhook")),
                     message, h, result)

\* req.on('error', ...) of the outbound call.
onError(l, messageId) ==
    Append(l, RespondEvent(500, "could not retreive the text of the message with id:" \o messageId))

\* The REST webhook's POST handler with every event of "messages" handled
\* as "created".
postWebhookAnyEvent(l, e, token) ==
    IF ~e.hasData \/ ~Truthy(e.resource) \/ ~Truthy(e.event)
    THEN Append(l, RespondEvent(400, "Wrong payload, a data+resource+event payload is expected for REST webhooks"))
    ELSE IF e.resource = "messages"
    THEN triggerMessageCreatedEvent(l, e.dataId, token)
    ELSE Append(l, RespondEvent(500, "This webhook does not support this resource/event type: "
                                      \o e.resource \o "/" \o e.event))

\* .post(...) of the REST webhook route.
postWebhook(l, e, token) ==
    IF ~e.hasData \/ ~Truthy(e.resource) \/ ~Truthy(e.event)
    THEN Append(l, RespondEvent(400, "Wrong payload, a data+resource+event payload is expected for REST webhooks"))
    ELSE IF e.resource = "messages"
    THEN IF e.event = "created"
         THEN triggerMessageCreatedEvent(l, e.dataId, token)
         ELSE Append(l, RespondEvent(500, "This webhook does not support this resource/event type: messages/deleted"))
    ELSE Append(l, RespondEvent(500, "This webhook does not support this resource/event type: "
                                      \o e.resource \o "/" \o e.event))

\* The integration's POST handler answering only once the callback is back.
postIntegrationCallbackFirst(l, body, h, result) ==
    LET message == validateMessage(body)
        called == execute(l, message, h, result)
    IN  IF Falsy(message)
        THEN Append(l, ExceptionEvent("ReferenceError: originalResponse is not defined"))
        ELSE IF Threw(called)
        THEN called
        ELSE Append(called, RespondEvent(200, "message processed by integration"))

\* .post(...) of the outgoing integration route.  In the branch of a
\* message that does not comply, originalResponse is not a name in scope:
\* reading it throws a ReferenceError before anything is sent.
postIntegration(l, body, h, result) ==
    LET message == validateMessage(body)
    IN  IF Falsy(message)
        THEN Append(l, ExceptionEvent("ReferenceError: originalResponse is not defined"))
        ELSE execute(Append(l, RespondEvent(200, "message processed by integration")),
                     message, h, result)

\* express runs a route handler inside try/catch and hands what it throws
\* to its default error handler: a 500 unless the headers are already sent.
expressHandle(l) ==
    IF Threw(l) /\ Responses(l) = <<>>
    THEN Append(l, RespondEvent(500, "Internal Server Error"))
    ELSE l

\* ------------------------------------------------------------------ Init
Init ==
    /\ configIn \in ConfigInputs
    /\ config = Construct(configIn)
    /\ routes = RegisteredRoutes(config)
    /\ handler = NoHandler
    /\ alive = TRUE
    /\ req = [r \in Requests |-> NoRequest]
    /\ pc = [r \in Requests |-> "new"]
    /\ outcome = [r \in Requests |-> NoOutcome]
    /\ log = [r \in Requests |-> <<>>]

\* Request r can arrive: the process runs, r is unused and the requests
\* before it have arrived.
CanArrive(r) ==
    /\ alive
    /\ pc[r] = "new"
    /\ \A q \in Requests : q < r => pc[q] # "new"

Arrive(r, route, method, envelope, message) ==
    req' = [req EXCEPT ![r] = [route |-> route, method |-> method,
                               envelope |-> envelope, message |-> message]]

\* ---------------------------------------------------------------- actions
\* Webhook.prototype.register
Register(h) ==
    /\ alive
    /\ handler' = h
    /\ UNCHANGED <<configIn, config, routes, alive, req, pc, outcome, log>>

\* app.get(health, ...)
HealthGet(r) ==
    /\ CanArrive(r)
    /\ Arrive(r, "health", "GET", NoEnvelope, NullPayload)
    /\ log' = [log EXCEPT ![r] = <<RespondEvent(200, "Congrats, your bot is up and running")>>]
    /\ pc' = [pc EXCEPT ![r] = "done"]
    /\ UNCHANGED <<configIn, config, routes, handler, alive, outcome>>

\* app.route(config.webhookURI).get(...)
WebhookGet(r) ==
    /\ CanArrive(r)
    /\ routes.webhook # Absent
    /\ Arrive(r, "webhook", "GET", NoEnvelope, NullPayload)
    /\ log' = [log EXCEPT ![r] = <<RespondEvent(400, "This REST webhook is expecting an HTTP POST")>>]
    /\ pc' = [pc EXCEPT ![r] = "done"]
    /\ UNCHANGED <<configIn, config, routes, handler, alive, outcome>>

\* app.route(config.webhookURI).post(...)
WebhookPost(r, e) ==
    /\ CanArrive(r)
    /\ routes.webhook # Absent
    /\ Arrive(r, "webhook", "POST", e, NullPayload)
    /\ log' = [log EXCEPT ![r] = postWebhook(<<>>, e, config.token)]
    /\ pc' = [pc EXCEPT ![r] = IF Fetches(log'[r]) # <<>> THEN "fetching" ELSE "done"]
    /\ UNCHANGED <<configIn, config, routes, handler, alive, outcome>>

\* The outbound call of r completes with a response: its 'end' handler
\* runs.  An exception it lets escape is uncaught and ends the process.
FetchEnd(r, status, body, result) ==
    /\ alive
    /\ pc[r] = "fetching"
    /\ outcome' = [outcome EXCEPT ![r] = [kind |-> "end", status |-> status, body |-> body]]
    /\ log' = [log EXCEPT ![r] = onEnd(log[r], req[r].envelope.dataId, status, body, handler, result)]
    /\ alive' = ~Threw(log'[r])
    /\ pc' = [pc EXCEPT ![r] = "done"]
    /\ UNCHANGED <<configIn, config, routes, handler, req>>

\* The outbound call of r fails: its 'error' handler runs.
FetchError(r) ==
    /\ alive
    /\ pc[r] = "fetching"
    /\ outcome' = [outcome EXCEPT ![r] = [NoOutcome EXCEPT !.kind = "error"]]
    /\ log' = [log EXCEPT ![r] = onError(log[r], req[r].envelope.dataId)]
    /\ pc' = [pc EXCEPT ![r] = "done"]
    /\ UNCHANGED <<configIn, config, routes, handler, alive, req>>

\* app.route(config.integrationURI).get(...)
IntegrationGet(r) ==
    /\ CanArrive(r)
    /\ routes.integration # Absent
    /\ Arrive(r, "integration", "GET", NoEnvelope, NullPayload)
    /\ log' = [log EXCEPT ![r] = <<RespondEvent(400, "This outgoing integration is expecting an HTTP POST")>>]
    /\ pc' = [pc EXCEPT ![r] = "done"]
    /\ UNCHANGED <<configIn, config, routes, handler, alive, outcome>>

\* app.route(config.integrationURI).post(...), run by express.
IntegrationPost(r, body, result) ==
    /\ CanArrive(r)
    /\ routes.integration # Absent
    /\ Arrive(r, "integration", "POST", NoEnvelope, body)
    /\ log' = [log EXCEPT ![r] = expressHandle(postIntegration(<<>>, body, handler, result))]
    /\ pc' = [pc EXCEPT ![r] = "done"]
    /\ UNCHANGED <<configIn, config, routes, handler, alive, outcome>>

Next ==
    \/ \E h \in Handlers : Register(h)
    \/ \E r \in Requests : HealthGet(r)
    \/ \E r \in Requests : WebhookGet(r)
    \/ \E r \in Requests, e \in Envelopes : WebhookPost(r, e)
    \/ \E r \in Requests, a \in Answers, result \in CallbackResults :
          FetchEnd(r, a.status, a.body, result)
    \/ \E r \in Requests : FetchError(r)
    \/ \E r \in Requests : IntegrationGet(r)
    \/ \E r \in Requests, body \in Payloads, result \in CallbackResults :
          IntegrationPost(r, body, result)

Spec == Init /\ [][Next]_vars

\* ---------------------------------------------------------------- claims
RequiredFields == {"id", "personId", "personEmail", "roomId", "created"}

\* The message structure of the documentation: the five fields there and
\* not empty, and a text or files.
Compliant(p) ==
    /\ ~p.isNull
    /\ \A f \in RequiredFields : Truthy(p[f])
    /\ Truthy(p.text) \/ Truthy(p.files)

IsWebhookPost(r) == req[r].route = "webhook" /\ req[r].method = "POST"
IsIntegrationPost(r) == req[r].route = "integration" /\ req[r].method = "POST"

\* The outbound call of r completed with a response of status 200 whose
\* body is JSON.
Answered200(r) ==
    outcome[r].kind = "end" /\ outcome[r].status = 200 /\ outcome[r].body.syntax = "json"

\* C1: on both routes, every invocation of the registered callback carries
\* a payload that complies with the message structure.
Thm_C1 ==
    \A r \in Requests : \A i \in 1..Len(log[r]) :
        IsCallback(log[r][i]) => Compliant(log[r][i].payload)

\* The callback has been invoked for a REST webhook request and for an
\* outgoing integration request.
Wit_C1 ==
    \E r1, r2 \in Requests :
        /\ IsWebhookPost(r1) /\ Callbacks(log[r1]) # <<>>
        /\ IsIntegrationPost(r2) /\ Callbacks(log[r2]) # <<>>

\* C2: a POST to the integration route whose body does not comply is
\* answered 200 "message format is not supported", callback not invoked.
Claim_C2 ==
    \A r \in Requests :
        (IsIntegrationPost(r) /\ pc[r] = "done" /\ ~Compliant(req[r].message)) =>
            /\ Responses(log[r]) = <<RespondEvent(200, "message format is not supported")>>
            /\ Callbacks(log[r]) = <<>>

\* C3: when the outbound call completes with 200 and a body that
\* complies, the handler answers 200 and, a callback being registered, invokes
\* it once with that message; nothing is done for the request afterwards.
Thm_C3 ==
    [][\A r \in Requests :
        /\ (pc[r] = "fetching" /\ pc'[r] = "done" /\ outcome'[r].kind = "end"
              /\ outcome'[r].status = 200 /\ outcome'[r].body.syntax = "json"
              /\ Compliant(outcome'[r].body.value)) =>
            /\ Responses(log'[r]) = <<RespondEvent(200, "message is being processed by webhook")>>
            /\ Len(Callbacks(log'[r])) = (IF handler # NoHandler THEN 1 ELSE 0)
            /\ \A i \in 1..Len(Callbacks(log'[r])) :
                  /\ Callbacks(log'[r])[i].handler = handler
                  /\ Callbacks(log'[r])[i].payload = outcome'[r].body.value
        /\ pc[r] = "done" => log'[r] = log[r]]_vars

\* A REST webhook request was answered 200 and its message handed to the
\* registered callback.
Wit_C3 ==
    \E r \in Requests :
        /\ IsWebhookPost(r) /\ Answered200(r) /\ Compliant(outcome[r].body.value)
        /\ Len(Callbacks(log[r])) = 1
        /\ Callbacks(log[r])[1].payload = outcome[r].body.value

\* C4: whenever the outbound call completes with a status other than 200,
\* whatever its body, the request is answered 500 and the callback is not
\* invoked.
Claim_C4 ==
    \A r \in Requests :
        (outcome[r].kind = "end" /\ outcome[r].status # 200) =>
            /\ Len(Responses(log[r])) = 1
            /\ Responses(log[r])[1].status = 500
            /\ Callbacks(log[r]) = <<>>

\* C5: when the outbound call completes with 200 and a JSON body that does
\* not comply, the request is answered 200 "no content to process" and the
\* callback is not invoked.
Thm_C5 ==
    \A r \in Requests :
        (Answered200(r) /\ ~Compliant(outcome[r].body.value)) =>
            /\ Responses(log[r]) =
                  <<RespondEvent(200, "no content to process for new message with id:"
                                      \o req[r].envelope.dataId)>>
            /\ Callbacks(log[r]) = <<>>

\* The platform answered 200 with a message lacking created while a
\* callback was registered.
Wit_C5 ==
    \E r \in Requests :
        /\ Answered200(r)
        /\ outcome[r].body.value = [FullMessage EXCEPT !.created = Absent]
        /\ handler # NoHandler
        /\ pc[r] = "done"

\* messages/created with a data object that has no id.
CreatedWithoutId(r) ==
    /\ IsWebhookPost(r)
    /\ req[r].envelope.resource = "messages" /\ req[r].envelope.event = "created"
    /\ req[r].envelope.hasData /\ ~Truthy(req[r].envelope.dataId)

\* C6: messages/created whose data has no id is answered 500 at once; no
\* outbound call is issued and the callback is not invoked.
Thm_C6 ==
    \A r \in Requests :
        CreatedWithoutId(r) =>
            /\ pc[r] = "done"
            /\ log[r] = <<RespondEvent(500, "could not retreive the message contents, no message id there !")>>
            /\ outcome[r] = NoOutcome

Wit_C6 ==
    \E r \in Requests : CreatedWithoutId(r) /\ handler # NoHandler

\* data, resource and event all there, and not messages/created.
Unsupported(r) ==
    /\ IsWebhookPost(r)
    /\ req[r].envelope.hasData
    /\ Truthy(req[r].envelope.resource) /\ Truthy(req[r].envelope.event)
    /\ ~(req[r].envelope.resource = "messages" /\ req[r].envelope.event = "created")

\* C7: any resource/event other than messages/created is answered 500; no
\* outbound call is issued and the callback is not invoked.
Thm_C7 ==
    \A r \in Requests :
        Unsupported(r) =>
            /\ pc[r] = "done"
            /\ Len(log[r]) = 1
            /\ IsRespond(log[r][1]) /\ log[r][1].status = 500
            /\ outcome[r] = NoOutcome

\* messages/deleted and an event of another resource have both been posted.
Wit_C7 ==
    \E r1, r2 \in Requests :
        /\ Unsupported(r1) /\ req[r1].envelope.resource = "messages"
        /\ Unsupported(r2) /\ req[r2].envelope.resource # "messages"
        /\ handler # NoHandler

NeitherURI(c) == ~Truthy(c.webhookURI) /\ ~Truthy(c.integrationURI)

\* C8: constructed with neither webhookURI nor integrationURI, a
\* configuration object that sets only other options included, the
\* integration route is registered at "/integration".
Claim_C8 ==
    NeitherURI(configIn) => routes.integration = "/integration"

\* C8 as amended: constructed without a configuration, the integration
\* route is registered at "/integration" (and no REST webhook route);
\* constructed with a configuration object that sets neither URI, neither
\* route is registered.
Thm_C8 ==
    /\ ~configIn.defined =>
          routes.integration = "/integration" /\ routes.webhook = Absent
    /\ (configIn.defined /\ NeitherURI(configIn)) =>
          routes.integration = Absent /\ routes.webhook = Absent

\* Constructed without a configuration, a POST to the integration route
\* has been served.
Wit_C8 ==
    /\ ~configIn.defined
    /\ \E r \in Requests : IsIntegrationPost(r) /\ pc[r] = "done"

\* C9: on both routes the callback is invoked only after the 200 answer
\* has been sent, and that answer is the request's only one, whether the
\* callback returns or throws.
Thm_C9 ==
    \A r \in Requests : \A i \in 1..Len(log[r]) :
        IsCallback(log[r][i]) =>
            /\ \E j \in 1..(i - 1) : IsRespond(log[r][j]) /\ log[r][j].status = 200
            /\ Responses(log[r]) =
                  <<RespondEvent(200, IF req[r].route = "webhook"
                                      THEN "message is being processed by webhook"
                                      ELSE "message processed by integration")>>

\* The callback has thrown for a request of each route.
Wit_C9 ==
    \E r1, r2 \in Requests :
        /\ IsIntegrationPost(r1) /\ Callbacks(log[r1]) # <<>>
        /\ Callbacks(log[r1])[1].result = "throw"
        /\ IsWebhookPost(r2) /\ Callbacks(log[r2]) # <<>>
        /\ Callbacks(log[r2])[1].result = "throw"

\* C10: every POST to the REST webhook whose handling has ended, the
\* outbound call having completed in whatever way, has been answered
\* exactly once.
Claim_C10 ==
    \A r \in Requests :
        (IsWebhookPost(r) /\ pc[r] = "done") => Len(Responses(log[r])) = 1

====
